---- MODULE Spec2Model ----
(***************************************************************************)
(* connvy: the action engine (ConnvyApp), the store instances it owns and  *)
(* the hooks that drive it (useActions, useStore).                         *)
(*                                                                         *)
(* A store instance is a record [storeName, collection, locked]; the       *)
(* registry of ConnvyApp maps store names to instances.  Array indices are *)
(* the zero-based indices of the source; collection[i + 1] is element i.   *)
(***************************************************************************)
EXTENDS Integers, Sequences, FiniteSets, TLC

\* ------------------------------------------------------------------ bounds
MaxLen == 1
MaxActions == 3
MaxStoreLen == 2

\* ------------------------------------------------------------ declarations
Stores == {"todos", "bagels"}

actionStateStore == "__connvy_actionState__"

ActionNames == {"createTodo", "syncAll"}

\* The stores an action factory was declared with (createAction's 2nd argument).
ActionStores(name) ==
    IF name = "createTodo" THEN {"todos"} ELSE {"todos", "bagels"}

Titles == {"a"}
NotAString == "!"

\* The matcher functions handed to updateAllWhere / deleteAllWhere / listBy.
matches(matcher, item) ==
    IF matcher = "isChecked" THEN item.checked ELSE TRUE

\* Values an action's function may throw (or reject its promise with): an
\* Error object, or the falsy value of `throw undefined` / `reject()`.
Undefined == "undefined"

ThrownValues == {"e1", Undefined}

\* JavaScript truthiness of a thrown value, as tested by `if (error)`.
isTruthy(v) == v # Undefined

\* ------------------------------------------------------ StoreInstanceImpl
Null == "null"

\* The empty string, a title the schema of the bagels store turns into null.
EmptyTitle == ""

\* The schema parser handed to the instance by createStore: zod's
\* z.object(schema(z)).parse, which accepts exactly the objects whose fields
\* are well typed.  The todos store declares title: z.string().min(1); the
\* bagels store declares title: z.string().transform((t) => t || null).
parseSchemaOk(storeName, obj) ==
    IF storeName = actionStateStore
    THEN obj.state \in {"IDLE", "ONGOING", "ERROR", "COMPLETED", "CANCELED"}
    ELSE IF storeName = "bagels"
    THEN obj.title \in Titles \cup {EmptyTitle}
    ELSE obj.title \in Titles

\* What parse returns for an object it accepts: the object, with the
\* transforms of the schema applied.
parseSchema(storeName, obj) ==
    IF storeName = "bagels" /\ obj.title = EmptyTitle
    THEN [obj EXCEPT !.title = Null]
    ELSE obj

\* new StoreInstanceImpl(storeName, schema)
NewStoreInstance(storeName) ==
    [storeName |-> storeName, collection |-> <<>>, locked |-> FALSE]

\* The outcome of a method call: the instance afterwards, the error thrown
\* ("none" when the call returned) and whether 'stateChanged' was emitted.
Threw(inst, err) == [inst |-> inst, error |-> err, emitted |-> FALSE]

Returned(inst, emitted) == [inst |-> inst, error |-> "none", emitted |-> emitted]

\* The outcome of a call that returns a value the callers look at.
ReturnedValue(inst, emitted, value) ==
    [inst |-> inst, error |-> "none", emitted |-> emitted, value |-> value]

assertNotLocked(inst) ==
    IF inst.locked THEN "StoreIsLockedError" ELSE "none"

\* i in this.collection
hasIndex(inst, i) == i >= 0 /\ i < Len(inst.collection)

\* { ...item, ...updates }
spread(item, updates) ==
    [f \in DOMAIN item |-> IF f \in DOMAIN updates THEN updates[f] ELSE item[f]]

\* create parsing the entity before it asserts the instance is not locked.
create_parsesFirst(inst, entity) ==
    IF ~parseSchemaOk(inst.storeName, entity) THEN Threw(inst, "ValidationError")
    ELSE IF assertNotLocked(inst) # "none" THEN Threw(inst, assertNotLocked(inst))
    ELSE Returned([inst EXCEPT !.collection =
                       Append(@, parseSchema(inst.storeName, entity))], TRUE)

\* create putting the new item in front (unshift instead of push).
create_unshifts(inst, entity) ==
    IF assertNotLocked(inst) # "none" THEN Threw(inst, assertNotLocked(inst))
    ELSE IF ~parseSchemaOk(inst.storeName, entity) THEN Threw(inst, "ValidationError")
    ELSE Returned([inst EXCEPT !.collection =
                       <<parseSchema(inst.storeName, entity)>> \o @], TRUE)

create(inst, entity) ==
    IF assertNotLocked(inst) # "none" THEN Threw(inst, assertNotLocked(inst))
    ELSE IF ~parseSchemaOk(inst.storeName, entity) THEN Threw(inst, "ValidationError")
    ELSE Returned([inst EXCEPT !.collection =
                       Append(@, parseSchema(inst.storeName, entity))], TRUE)

\* The opts argument of get / getBy: whether it carries a fallback that is
\* not undefined, and that fallback.
GetOpts ==
    {[hasFallback |-> FALSE, fallback |-> [title |-> "", checked |-> FALSE]],
     [hasFallback |-> TRUE, fallback |-> [title |-> "fallback", checked |-> FALSE]]}

\* The outcome of a reading call: as for a mutating call, and the value
\* returned ("null" when the call threw).
Got(inst, value) ==
    [inst |-> inst, error |-> "none", emitted |-> FALSE, value |-> value]

NotGot(inst, err) ==
    [inst |-> inst, error |-> err, emitted |-> FALSE, value |-> "null"]

\* get that throws on a missing index whatever opts holds.
get_ignoresFallback(inst, i, opts) ==
    IF hasIndex(inst, i) THEN Got(inst, inst.collection[i + 1])
    ELSE NotGot(inst, "ItemNotFoundInStoreError")

get(inst, i, opts) ==
    IF hasIndex(inst, i) THEN Got(inst, inst.collection[i + 1])
    ELSE IF opts.hasFallback THEN Got(inst, opts.fallback)
    ELSE NotGot(inst, "ItemNotFoundInStoreError")

\* this.collection.find(matcher): the indices of the matching items, the
\* least of which is the one found.
findIndices(collection, matcher) ==
    {k \in 1..Len(collection) : matches(matcher, collection[k])}

getBy(inst, matcher, opts) ==
    LET found == findIndices(inst.collection, matcher)
    IN  IF found # {}
        THEN Got(inst, inst.collection[CHOOSE k \in found : \A j \in found : k <= j])
        ELSE IF opts.hasFallback THEN Got(inst, opts.fallback)
        ELSE NotGot(inst, "ItemNotMatchedInStoreError")

list(inst) == inst.collection

listBy(inst, matcher) == SelectSeq(inst.collection, LAMBDA item : matches(matcher, item))

\* update assigning the merged item before it parses it.
update_assignsBeforeParse(inst, i, updates) ==
    IF assertNotLocked(inst) # "none" THEN Threw(inst, assertNotLocked(inst))
    ELSE IF ~hasIndex(inst, i) THEN Threw(inst, "ItemNotFoundInStoreError")
    ELSE IF ~parseSchemaOk(inst.storeName, spread(inst.collection[i + 1], updates))
    THEN Threw([inst EXCEPT !.collection[i + 1] = spread(@, updates)], "ValidationError")
    ELSE Returned([inst EXCEPT !.collection[i + 1] =
                       parseSchema(inst.storeName, spread(@, updates))], TRUE)

update(inst, i, updates) ==
    IF assertNotLocked(inst) # "none" THEN Threw(inst, assertNotLocked(inst))
    ELSE IF ~hasIndex(inst, i) THEN Threw(inst, "ItemNotFoundInStoreError")
    ELSE IF ~parseSchemaOk(inst.storeName, spread(inst.collection[i + 1], updates))
    THEN Threw(inst, "ValidationError")
    ELSE Returned([inst EXCEPT !.collection[i + 1] =
                       parseSchema(inst.storeName, spread(@, updates))], TRUE)

\* The forEach loop of updateAllWhere from position i on: each matching item
\* is parsed and written back in turn, so a parse failure leaves the items
\* before it already written.
RECURSIVE updateAllWhereFrom(_, _, _, _, _)
updateAllWhereFrom(inst, matcher, updates, i, affectedItems) ==
    IF ~hasIndex(inst, i)
    THEN ReturnedValue(inst, affectedItems > 0, affectedItems)
    ELSE IF ~matches(matcher, inst.collection[i + 1])
    THEN updateAllWhereFrom(inst, matcher, updates, i + 1, affectedItems)
    ELSE IF ~parseSchemaOk(inst.storeName, spread(inst.collection[i + 1], updates))
    THEN Threw(inst, "ValidationError")
    ELSE updateAllWhereFrom([inst EXCEPT !.collection[i + 1] =
                                 parseSchema(inst.storeName, spread(@, updates))],
                            matcher, updates, i + 1, affectedItems + 1)

updateAllWhere(inst, matcher, updates) ==
    IF assertNotLocked(inst) # "none" THEN Threw(inst, assertNotLocked(inst))
    ELSE updateAllWhereFrom(inst, matcher, updates, 0, 0)

\* replace assigning the entity as it was handed in, without parsing it.
replace_skipsParse(inst, i, entity) ==
    IF assertNotLocked(inst) # "none" THEN Threw(inst, assertNotLocked(inst))
    ELSE IF ~hasIndex(inst, i) THEN Threw(inst, "ItemNotFoundInStoreError")
    ELSE Returned([inst EXCEPT !.collection[i + 1] = entity], TRUE)

replace(inst, i, entity) ==
    IF assertNotLocked(inst) # "none" THEN Threw(inst, assertNotLocked(inst))
    ELSE IF ~hasIndex(inst, i) THEN Threw(inst, "ItemNotFoundInStoreError")
    ELSE IF ~parseSchemaOk(inst.storeName, entity) THEN Threw(inst, "ValidationError")
    ELSE Returned([inst EXCEPT !.collection[i + 1] =
                       parseSchema(inst.storeName, entity)], TRUE)

\* this.collection.splice(i, 1)
splice(collection, i) ==
    SubSeq(collection, 1, i) \o SubSeq(collection, i + 2, Len(collection))

delete(inst, i) ==
    IF assertNotLocked(inst) # "none" THEN Threw(inst, assertNotLocked(inst))
    ELSE IF hasIndex(inst, i)
    THEN Returned([inst EXCEPT !.collection = splice(@, i)], TRUE)
    ELSE Threw(inst, "ItemNotFoundInStoreError")

\* deleteAllWhere emitting stateChanged whatever the number of affected items.
deleteAllWhere_alwaysEmits(inst, matcher) ==
    IF assertNotLocked(inst) # "none" THEN Threw(inst, assertNotLocked(inst))
    ELSE LET kept == SelectSeq(inst.collection, LAMBDA item : ~matches(matcher, item))
             affectedItems == Len(inst.collection) - Len(kept)
         IN  ReturnedValue([inst EXCEPT !.collection = kept], TRUE, affectedItems)

deleteAllWhere(inst, matcher) ==
    IF assertNotLocked(inst) # "none" THEN Threw(inst, assertNotLocked(inst))
    ELSE LET kept == SelectSeq(inst.collection, LAMBDA item : ~matches(matcher, item))
             affectedItems == Len(inst.collection) - Len(kept)
         IN  ReturnedValue([inst EXCEPT !.collection = kept],
                           affectedItems > 0, affectedItems)

\* merge adding the other instance's items to its own.
merge_appends(inst, from) ==
    IF assertNotLocked(inst) # "none" THEN Threw(inst, assertNotLocked(inst))
    ELSE Returned([inst EXCEPT !.collection = @ \o list(from)], TRUE)

merge(inst, from) ==
    IF assertNotLocked(inst) # "none" THEN Threw(inst, assertNotLocked(inst))
    ELSE Returned([inst EXCEPT !.collection = list(from)], TRUE)

\* clone(): a new, unlocked instance that merges this one.
clone(inst) == merge(NewStoreInstance(inst.storeName), inst).inst

lock(inst) == [inst EXCEPT !.locked = TRUE]

unlock(inst) == [inst EXCEPT !.locked = FALSE]

\* ------------------------------------------------- the mutating API calls
\* A call of one of the six mutating methods of PublicStoreInstanceAPI, with
\* the arguments the callers of this model use.
WriteCalls ==
    {[method |-> "create", entity |-> [title |-> "a", checked |-> FALSE]],
     [method |-> "create", entity |-> [title |-> NotAString, checked |-> FALSE]],
     [method |-> "update", i |-> 0, updates |-> [f \in {"checked"} |-> TRUE]],
     [method |-> "updateAllWhere", matcher |-> "any", updates |-> [f \in {"checked"} |-> TRUE]],
     [method |-> "replace", i |-> 0, entity |-> [title |-> "a", checked |-> FALSE]],
     [method |-> "delete", i |-> 0],
     [method |-> "deleteAllWhere", matcher |-> "isChecked"]}

call(inst, c) ==
    CASE c.method = "create" -> create(inst, c.entity)
      [] c.method = "update" -> update(inst, c.i, c.updates)
      [] c.method = "updateAllWhere" -> updateAllWhere(inst, c.matcher, c.updates)
      [] c.method = "replace" -> replace(inst, c.i, c.entity)
      [] c.method = "delete" -> delete(inst, c.i)
      [] c.method = "deleteAllWhere" -> deleteAllWhere(inst, c.matcher)

\* The mutating calls tried on a single instance: those of WriteCalls and
\* calls with an index that is out of range or an argument that fails the
\* schema.
StoreCalls ==
    WriteCalls \cup
    {[method |-> "update", i |-> 0, updates |-> [f \in {"title"} |-> NotAString]],
     [method |-> "update", i |-> MaxStoreLen + 1, updates |-> [f \in {"checked"} |-> TRUE]],
     [method |-> "updateAllWhere", matcher |-> "any", updates |-> [f \in {"title"} |-> NotAString]],
     [method |-> "replace", i |-> 0, entity |-> [title |-> "a", checked |-> TRUE]],
     [method |-> "replace", i |-> 0, entity |-> [title |-> NotAString, checked |-> FALSE]],
     [method |-> "replace", i |-> MaxStoreLen + 1, entity |-> [title |-> "a", checked |-> FALSE]],
     [method |-> "delete", i |-> MaxStoreLen + 1],
     [method |-> "deleteAllWhere", matcher |-> "any"],
     [method |-> "create", entity |-> [title |-> EmptyTitle, checked |-> FALSE]],
     [method |-> "update", i |-> 1, updates |-> [f \in {"checked"} |-> TRUE]]}

\* The entities handed to a run of create calls: valid ones and one that
\* fails the schema.
CreateInputs ==
    {[title |-> "a", checked |-> FALSE],
     [title |-> "a", checked |-> TRUE],
     [title |-> NotAString, checked |-> FALSE],
     [title |-> EmptyTitle, checked |-> FALSE]}

\* create(entities[1]); ...; create(entities[n]), each in a try block: the
\* instance afterwards.
RECURSIVE createAll(_, _)
createAll(inst, entities) ==
    IF entities = <<>> THEN inst
    ELSE createAll(create(inst, Head(entities)).inst, Tail(entities))

\* The reading calls tried on a single instance.
ReadCalls ==
    {[method |-> "get", i |-> i, opts |-> o] : i \in 0..MaxStoreLen, o \in GetOpts}
    \cup {[method |-> "getBy", matcher |-> m, opts |-> o] :
             m \in {"any", "isChecked"}, o \in GetOpts}

read(inst, c) ==
    CASE c.method = "get" -> get(inst, c.i, c.opts)
      [] c.method = "getBy" -> getBy(inst, c.matcher, c.opts)

\* A call on a ReadOnlyStoreInstanceImpl: the methods the subclass overrides
\* throw StoreIsReadOnlyError; the others are those of StoreInstanceImpl.
readOnlyCall(inst, c) ==
    CASE c.method = "create" -> Threw(inst, "StoreIsReadOnlyError")
      [] c.method = "update" -> Threw(inst, "StoreIsReadOnlyError")
      [] c.method = "updateAllWhere" -> Threw(inst, "StoreIsReadOnlyError")
      [] c.method = "delete" -> Threw(inst, "StoreIsReadOnlyError")
      [] c.method = "deleteAllWhere" -> Threw(inst, "StoreIsReadOnlyError")
      [] c.method = "replace" -> replace(inst, c.i, c.entity)

\* ------------------------------------------------------ object identity
\* Instances as JavaScript objects: a world holds the arrays allocated so far
\* (an instance's collection field is the position of its array), the named
\* instances with their stateChanged listeners, and the listeners notified
\* so far.  create, update, updateAllWhere, replace and delete write the
\* array in place; deleteAllWhere and merge assign a new array.
Listeners == {"rerenderMe"}

\* An instance of the registry with a component subscribed to it (useStore).
world(inst) ==
    [arrays |-> <<inst.collection>>,
     insts |-> [n \in {"original"} |->
                  [storeName |-> inst.storeName, collection |-> 1,
                   locked |-> inst.locked, listeners |-> Listeners]],
     notified |-> {}]

\* A newly allocated array holding items; it is the last of w.arrays.
newArray(w, items) == [w EXCEPT !.arrays = Append(@, items)]

\* The instance called name, with the items of its array.
valueOf(w, name) ==
    [storeName |-> w.insts[name].storeName,
     collection |-> w.arrays[w.insts[name].collection],
     locked |-> w.insts[name].locked]

\* merge taking the other instance's array itself for its collection.
mergeIn_sharesArray(w, name, from) ==
    IF w.insts[name].locked THEN w
    ELSE [w EXCEPT !.insts[name].collection = w.insts[from].collection,
                   !.notified = @ \cup w.insts[name].listeners]

\* this.collection = [...from.list()], where list() returns
\* [...this.collection]: two fresh arrays, the second of which is kept.
mergeIn(w, name, from) ==
    IF w.insts[name].locked THEN w
    ELSE LET listed == newArray(w, w.arrays[w.insts[from].collection])
             spreadOut == newArray(listed, listed.arrays[Len(listed.arrays)])
         IN  [spreadOut EXCEPT !.insts[name].collection = Len(spreadOut.arrays),
                               !.notified = @ \cup w.insts[name].listeners]

\* clone(): a new instance (own empty array, unlocked, own event emitter
\* without listeners) that merges this one.
cloneIn(w, name, newName) ==
    LET allocated == newArray(w, <<>>)
        newInstance == [storeName |-> w.insts[name].storeName,
                        collection |-> Len(allocated.arrays),
                        locked |-> FALSE, listeners |-> {}]
        constructed ==
            [allocated EXCEPT !.insts =
                [n \in DOMAIN @ \cup {newName} |->
                    IF n = newName THEN newInstance ELSE @[n]]]
    IN  mergeIn(constructed, newName, name)

\* A mutating call on the instance called name.
callIn(w, name, c) ==
    LET r == call(valueOf(w, name), c)
        notified == IF r.emitted THEN w.insts[name].listeners ELSE {}
    IN  IF c.method = "deleteAllWhere" /\ r.error = "none"
        THEN LET filtered == newArray(w, r.inst.collection)
             IN  [filtered EXCEPT !.insts[name].collection = Len(filtered.arrays),
                                  !.notified = @ \cup notified]
        ELSE [w EXCEPT !.arrays[w.insts[name].collection] = r.inst.collection,
                       !.notified = @ \cup notified]

\* ---------------------------------------------------------------- state
VARIABLES
    storeInstances,   \* ConnvyApp.storeInstances: store name -> instance
    ongoingAction,    \* ConnvyApp.ongoingAction: 0 for null, else the action's id
    created,          \* how many Action objects have been handed to run
    pending           \* the asynchronous actions whose promise has not settled

vars == <<storeInstances, ongoingAction, created, pending>>

\* The live records of a store as an outside reader sees them (list()).
Live(reg, store) ==
    IF store \in DOMAIN reg THEN list(reg[store]) ELSE <<>>

Locked(reg, store) == store \in DOMAIN reg /\ reg[store].locked

\* useActionState(): the action state record, IDLE before anything ran.
ActionStateOf(reg) ==
    IF actionStateStore \in DOMAIN reg /\ hasIndex(reg[actionStateStore], 0)
    THEN reg[actionStateStore].collection[1]
    ELSE [state |-> "IDLE", actionName |-> "", error |-> "null"]

\* The argument of useActionState: none, one action factory, or an array of
\* factories (given here by the set of their action names; the array may be
\* empty).
WatchSets ==
    {[given |-> FALSE, names |-> {}]}
    \cup {[given |-> TRUE, names |-> names] : names \in SUBSET ActionNames}

\* useActionState that takes no argument into account.
useActionState_ignoresWatch(reg, watch) ==
    ActionStateOf(reg)

\* useActionState(actionOrActionsToWatch?)
useActionState(reg, watch) ==
    LET actionState == ActionStateOf(reg)
    IN  IF ~watch.given \/ actionState.actionName \in watch.names
        THEN actionState
        ELSE [state |-> "IDLE", actionName |-> "", error |-> "null"]

\* ------------------------------------------------------------- ConnvyApp
\* getOrCreateStoreInstance calling store.create() on every call.
getOrCreateStoreInstance_alwaysCreates(reg, store) ==
    [s \in DOMAIN reg \cup {store} |->
        IF s = store THEN NewStoreInstance(store) ELSE reg[s]]

getOrCreateStoreInstance(reg, store) ==
    IF store \in DOMAIN reg
    THEN reg
    ELSE [s \in DOMAIN reg \cup {store} |->
            IF s = store THEN NewStoreInstance(store) ELSE reg[s]]

\* updateActionState that only ever creates.
updateActionState_onlyCreates(reg, actionState) ==
    LET reg1 == getOrCreateStoreInstance(reg, actionStateStore)
    IN  [reg1 EXCEPT ![actionStateStore] = create(@, actionState).inst]

\* try { replace(0, actionState) } catch { create(actionState) }
updateActionState(reg, actionState) ==
    LET reg1 == getOrCreateStoreInstance(reg, actionStateStore)
        replaced == replace(reg1[actionStateStore], 0, actionState)
    IN  IF replaced.error = "none"
        THEN [reg1 EXCEPT ![actionStateStore] = replaced.inst]
        ELSE [reg1 EXCEPT ![actionStateStore] = create(@, actionState).inst]

\* collectStoreInstance locking every instance of the registry instead of
\* leaving the stores the action does not declare alone.
collectStoreInstance_locksAll(reg, stores) ==
    [s \in DOMAIN reg \cup stores |->
        lock(IF s \in DOMAIN reg THEN reg[s] ELSE NewStoreInstance(s))]

\* The instances handed to the action's function, one per declared store:
\* the registry's own instances.
collectStoreInstance(reg, stores) ==
    [s \in DOMAIN reg \cup stores |->
        IF s \in DOMAIN reg THEN reg[s] ELSE NewStoreInstance(s)]

\* The guard of runAction: is there an ongoing action?
hasOngoingAction(marker) == marker # 0

\* The first statements of an accepted runAction: the ONGOING record.
startAction(reg, name) ==
    updateActionState(reg, [state |-> "ONGOING", actionName |-> name, error |-> "null"])

\* andThen without its else branch: nothing is recorded on success.
andThen_skipsCompleted(reg, marker, name, error) ==
    IF isTruthy(error)
    THEN [storeInstances |->
              updateActionState(reg, [state |-> "ERROR", actionName |-> name, error |-> error]),
          ongoingAction |-> 0,
          throws |-> error]
    ELSE [storeInstances |-> reg, ongoingAction |-> 0, throws |-> "none"]

\* andThen clearing the marker on the success path only.
andThen_keepsMarkerOnError(reg, marker, name, error) ==
    IF isTruthy(error)
    THEN [storeInstances |->
              updateActionState(reg, [state |-> "ERROR", actionName |-> name, error |-> error]),
          ongoingAction |-> marker,
          throws |-> error]
    ELSE [storeInstances |->
              updateActionState(reg, [state |-> "COMPLETED", actionName |-> name, error |-> "null"]),
          ongoingAction |-> 0,
          throws |-> "none"]

\* The settlement callback runAction hands to runSyncOrAsyncAction.  `error`
\* is Undefined when it is called without an argument; `marker` is
\* this.ongoingAction when it is called.  Yields the registry
\* and marker afterwards and the value it throws ("none": it returns).
andThen(reg, marker, name, error) ==
    IF isTruthy(error)
    THEN [storeInstances |->
              updateActionState(reg, [state |-> "ERROR", actionName |-> name, error |-> error]),
          ongoingAction |-> 0,
          throws |-> error]
    ELSE [storeInstances |->
              updateActionState(reg, [state |-> "COMPLETED", actionName |-> name, error |-> "null"]),
          ongoingAction |-> 0,
          throws |-> "none"]

\* The synchronous part of the action's function: the calls it makes on the
\* instances it was handed.  The functions run here make calls that succeed;
\* a function that lets an error escape is one that throws (ThrownValues).
RECURSIVE runCalls(_, _)
runCalls(reg, calls) ==
    IF calls = <<>>
    THEN [storeInstances |-> reg, error |-> "none"]
    ELSE LET r == call(reg[Head(calls).store], Head(calls).call)
         IN  IF r.error # "none"
             THEN [storeInstances |-> reg, error |-> r.error]
             ELSE runCalls([reg EXCEPT ![Head(calls).store] = r.inst], Tail(calls))

WithinBounds(reg) ==
    \A s \in DOMAIN reg : Len(reg[s].collection) <= MaxLen

\* What the body of an action does before it returns, throws or suspends.
BodyCalls(name) ==
    {<<>>} \cup {<<[store |-> s, call |-> c]>> : s \in ActionStores(name), c \in WriteCalls}

Init ==
    /\ storeInstances = [s \in {} |-> NewStoreInstance(s)]
    /\ ongoingAction = 0
    /\ created = 0
    /\ pending = [i \in {} |-> 0]

\* runAction writing the ONGOING record before it tests the marker.
refuseAction_afterRecord(reg, marker, incoming) ==
    [storeInstances |->
         updateActionState(reg, [state |-> "ONGOING", actionName |-> "", error |-> "null"]),
     ongoingAction |-> marker,
     throws |-> [error |-> "OngoingActionError",
                 ongoingAction |-> marker, incomingAction |-> incoming]]

\* runAction with an action ongoing: it throws OngoingActionError, which
\* carries the ongoing and the incoming action, before anything else.
refuseAction(reg, marker, incoming) ==
    [storeInstances |-> reg, ongoingAction |-> marker,
     throws |-> [error |-> "OngoingActionError",
                 ongoingAction |-> marker, incomingAction |-> incoming]]

\* run(action) refused.
RunRefused(name) ==
    /\ hasOngoingAction(ongoingAction)
    /\ LET refused == refuseAction(storeInstances, ongoingAction, created + 1)
       IN  /\ storeInstances' = refused.storeInstances
           /\ ongoingAction' = refused.ongoingAction
    /\ UNCHANGED <<created, pending>>

\* What the action's function does when runSyncOrAsyncAction calls it: it
\* returns, returns a Promise (and is suspended), or throws a value.
Outcomes == {"return", "suspend"} \cup ThrownValues

\* runSyncOrAsyncAction up to the point where action.run(stores) has returned,
\* thrown or handed back its Promise: the instances are collected and the
\* synchronous part of the function has made its calls on them.
runSyncOrAsyncAction(reg, name, calls) ==
    runCalls(collectStoreInstance(reg, ActionStores(name)), calls)

\* An accepted runAction(action), `id` being the Action object: the registry
\* and the marker when run gives control back to its caller, and the value
\* run throws ("none": it returns undefined or the chained Promise).
runAction(reg, id, name, calls, outcome) ==
    LET body == runSyncOrAsyncAction(startAction(reg, name), name, calls)
    IN  IF outcome = "suspend"
        THEN [storeInstances |-> body.storeInstances, ongoingAction |-> id,
              throws |-> "none", bodyError |-> body.error]
        ELSE LET done == andThen(body.storeInstances, id, name,
                                 IF outcome = "return" THEN Undefined ELSE outcome)
             IN  [storeInstances |-> done.storeInstances,
                  ongoingAction |-> done.ongoingAction,
                  throws |-> done.throws, bodyError |-> body.error]

\* run(action) of a function that returns or throws synchronously.
RunSync(name, calls, outcome) ==
    /\ created < MaxActions
    /\ ~hasOngoingAction(ongoingAction)
    /\ outcome # "suspend"
    /\ LET ran == runAction(storeInstances, created + 1, name, calls, outcome)
       IN  /\ ran.bodyError = "none"
           /\ WithinBounds(ran.storeInstances)
           /\ storeInstances' = ran.storeInstances
           /\ ongoingAction' = ran.ongoingAction
    /\ created' = created + 1
    /\ UNCHANGED pending

\* run(action) of a function that returns a Promise: run returns the chained
\* promise while the body is suspended.
RunAsync(name, calls) ==
    /\ created < MaxActions
    /\ ~hasOngoingAction(ongoingAction)
    /\ LET ran == runAction(storeInstances, created + 1, name, calls, "suspend")
       IN  /\ ran.bodyError = "none"
           /\ WithinBounds(ran.storeInstances)
           /\ storeInstances' = ran.storeInstances
           /\ ongoingAction' = ran.ongoingAction
    /\ pending' = [i \in DOMAIN pending \cup {created + 1} |->
           IF i = created + 1 THEN [name |-> name, canceled |-> FALSE] ELSE pending[i]]
    /\ created' = created + 1

\* The suspended body of an asynchronous action resumes and makes one more
\* call on an instance it was handed.
BodyCall(id, store, c) ==
    /\ id \in DOMAIN pending
    /\ store \in ActionStores(pending[id].name)
    /\ LET r == call(storeInstances[store], c)
       IN  /\ r.error = "none"
           /\ Len(r.inst.collection) <= MaxLen
           /\ storeInstances' = [storeInstances EXCEPT ![store] = r.inst]
    /\ UNCHANGED <<ongoingAction, created, pending>>

Without(f, id) == [i \in DOMAIN f \ {id} |-> f[i]]

\* The promise the function returned is fulfilled: .then(() => andThen()).
Fulfil(id) ==
    /\ id \in DOMAIN pending
    /\ LET done == andThen(storeInstances, ongoingAction, pending[id].name, Undefined)
       IN  /\ storeInstances' = done.storeInstances
           /\ ongoingAction' = done.ongoingAction
    /\ pending' = Without(pending, id)
    /\ UNCHANGED created

\* The promise the function returned is rejected: .catch((err) => andThen(err)).
Reject(id, err) ==
    /\ id \in DOMAIN pending
    /\ LET done == andThen(storeInstances, ongoingAction, pending[id].name, err)
       IN  /\ storeInstances' = done.storeInstances
           /\ ongoingAction' = done.ongoingAction
    /\ pending' = Without(pending, id)
    /\ UNCHANGED created

\* The argument of useActions().cancel: none, one action factory, or an array
\* of factories (given here by the set of their action names).
CancelFilters ==
    {[given |-> FALSE, names |-> {}]}
    \cup {[given |-> TRUE, names |-> {n}] : n \in ActionNames}
    \cup {[given |-> TRUE, names |-> ActionNames]}

\* shouldCancelAction ignoring the names it was given.
shouldCancelAction_anyName(filter, actionName) ==
    TRUE

\* shouldCancelAction without its first test (no argument: cancel anything).
shouldCancelAction_noDefault(filter, actionName) ==
    actionName \in filter.names

shouldCancelAction(filter, actionName) ==
    IF ~filter.given THEN TRUE ELSE actionName \in filter.names

\* ConnvyApp.cancelAction({ onlyIf }).
cancelAction(reg, marker, name, filter) ==
    IF hasOngoingAction(marker) /\ shouldCancelAction(filter, name)
    THEN [storeInstances |->
              updateActionState(reg, [state |-> "CANCELED", actionName |-> name, error |-> "null"]),
          ongoingAction |-> 0, canceled |-> TRUE]
    ELSE [storeInstances |-> reg, ongoingAction |-> marker, canceled |-> FALSE]

Cancel(filter) ==
    LET name == IF ongoingAction \in DOMAIN pending THEN pending[ongoingAction].name ELSE ""
        done == cancelAction(storeInstances, ongoingAction, name, filter)
    IN  /\ storeInstances' = done.storeInstances
        /\ ongoingAction' = done.ongoingAction
        /\ pending' = IF done.canceled
                      THEN [pending EXCEPT ![ongoingAction].canceled = TRUE]
                      ELSE pending
        /\ UNCHANGED created

\* A component, outside any action, calls a mutating method on the instance
\* useStore(store) gave it.
OutsideCall(store, c) ==
    LET reg1 == getOrCreateStoreInstance(storeInstances, store)
        r == call(reg1[store], c)
    IN  /\ Len(r.inst.collection) <= MaxLen
        /\ storeInstances' = [reg1 EXCEPT ![store] = r.inst]
        /\ UNCHANGED <<ongoingAction, created, pending>>

Next ==
    \/ \E name \in ActionNames : RunRefused(name)
    \/ \E name \in ActionNames : \E calls \in BodyCalls(name) :
          \E outcome \in Outcomes : RunSync(name, calls, outcome)
    \/ \E name \in ActionNames : \E calls \in BodyCalls(name) : RunAsync(name, calls)
    \/ \E id \in 1..MaxActions, store \in Stores, c \in WriteCalls : BodyCall(id, store, c)
    \/ \E id \in 1..MaxActions : Fulfil(id)
    \/ \E id \in 1..MaxActions, err \in ThrownValues : Reject(id, err)
    \/ \E filter \in CancelFilters : Cancel(filter)
    \/ \E store \in Stores, c \in WriteCalls : OutsideCall(store, c)

Spec == Init /\ [][Next]_vars

\* ------------------------------------------------------------- selectors
\* What `result instanceof Promise` tells apart from every other result.
Promise == "Promise"

\* The selectors evaluated: the store each declares, what its function does
\* with the view it is handed (at most one mutating call, then a return or a
\* throw; an async function returns a promise whatever its body does) and
\* the fallback it was created with (Undefined: none).
Selectors ==
    [store : Stores,
     async : BOOLEAN,
     writes : {<<>>} \cup {<<c>> : c \in StoreCalls},
     ending : {[kind |-> "return", value |-> "v"]}
              \cup {[kind |-> "throw", value |-> e] : e \in ThrownValues},
     fallback : {Undefined, "fallback"}]

\* select without the `result instanceof Promise` test.
select_noAsyncCheck(reg, selector) ==
    LET reg1 == getOrCreateStoreInstance(reg, selector.store)
        view0 == clone(reg1[selector.store])
        wrote == IF selector.writes = <<>>
                 THEN Returned(view0, FALSE)
                 ELSE readOnlyCall(view0, selector.writes[1])
        threw == ~selector.async
                 /\ (wrote.error # "none" \/ selector.ending.kind = "throw")
        result == IF selector.async THEN Promise
                  ELSE IF threw THEN Null ELSE selector.ending.value
        error == IF ~threw THEN Null
                 ELSE IF wrote.error # "none" THEN wrote.error
                 ELSE selector.ending.value
        out == [thrown |-> "none", storeName |-> "", method |-> "",
                result |-> result, error |-> error,
                view |-> wrote.inst, storeInstances |-> reg1]
    IN  IF error = "StoreIsReadOnlyError"
        THEN [out EXCEPT !.thrown = "AttemptingToWriteFromSelectorError",
                         !.storeName = view0.storeName,
                         !.method = selector.writes[1].method]
        ELSE IF error # Null /\ isTruthy(error) /\ selector.fallback # Undefined
        THEN [out EXCEPT !.result = selector.fallback, !.error = Null]
        ELSE out

\* ConnvyApp.select(selector): what it throws ("none" when it returns), the
\* store and method the thrown error names, the [result, error] pair it
\* returns, the read-only view after the function ran and the registry.
select(reg, selector) ==
    LET reg1 == getOrCreateStoreInstance(reg, selector.store)
        \* collectStoreInstanceAsReadOnly(selector.stores)
        view0 == clone(reg1[selector.store])
        wrote == IF selector.writes = <<>>
                 THEN Returned(view0, FALSE)
                 ELSE readOnlyCall(view0, selector.writes[1])
        \* try { result = selector.select(stores) } catch (err) { error = err }
        threw == ~selector.async
                 /\ (wrote.error # "none" \/ selector.ending.kind = "throw")
        result == IF selector.async THEN Promise
                  ELSE IF threw THEN Null ELSE selector.ending.value
        error == IF ~threw THEN Null
                 ELSE IF wrote.error # "none" THEN wrote.error
                 ELSE selector.ending.value
        out == [thrown |-> "none", storeName |-> "", method |-> "",
                result |-> result, error |-> error,
                view |-> wrote.inst, storeInstances |-> reg1]
    IN  IF result = Promise
        THEN [out EXCEPT !.thrown = "SelectorCantBeAsyncError"]
        ELSE IF error = "StoreIsReadOnlyError"
        THEN [out EXCEPT !.thrown = "AttemptingToWriteFromSelectorError",
                         !.storeName = view0.storeName,
                         !.method = selector.writes[1].method]
        \* if (error && selector.fallback !== undefined)
        ELSE IF error # Null /\ isTruthy(error) /\ selector.fallback # Undefined
        THEN [out EXCEPT !.result = selector.fallback, !.error = Null]
        ELSE out

\* The promise an action's function returned settles, one way or the other.
Settle(id) == Fulfil(id) \/ \E err \in ThrownValues : Reject(id, err)

\* The engine under the assumption that the body of every started action
\* eventually settles.
FairSpec == Spec /\ \A id \in 1..MaxActions : WF_vars(Settle(id))

\* ------------------------------------------------- store instances alone
\* The instances of the declared stores, driven directly through the whole
\* StoreInstance interface, and selectors evaluated over them.
StoreInit ==
    /\ storeInstances = [s \in Stores |-> NewStoreInstance(s)]
    /\ ongoingAction = 0
    /\ created = 0
    /\ pending = [i \in {} |-> 0]

StoreCall(store, c) ==
    LET r == call(storeInstances[store], c)
    IN  /\ Len(r.inst.collection) <= MaxStoreLen
        /\ storeInstances' = [storeInstances EXCEPT ![store] = r.inst]
        /\ UNCHANGED <<ongoingAction, created, pending>>

StoreLock(store) ==
    /\ storeInstances' = [storeInstances EXCEPT ![store] = lock(@)]
    /\ UNCHANGED <<ongoingAction, created, pending>>

StoreUnlock(store) ==
    /\ storeInstances' = [storeInstances EXCEPT ![store] = unlock(@)]
    /\ UNCHANGED <<ongoingAction, created, pending>>

\* store.get(i, opts) / store.getBy(matcher, opts)
StoreRead(store, c) ==
    /\ storeInstances' = [storeInstances EXCEPT ![store] = read(@, c).inst]
    /\ UNCHANGED <<ongoingAction, created, pending>>

\* copy = store.clone(); a call on the copy; store.merge(copy)
StoreMerge(store, c) ==
    LET copy == call(clone(storeInstances[store]), c).inst
    IN  /\ Len(copy.collection) <= MaxStoreLen
        /\ storeInstances' = [storeInstances EXCEPT ![store] = merge(@, copy).inst]
        /\ UNCHANGED <<ongoingAction, created, pending>>

\* app.select(selector): the registry afterwards; the read-only views the
\* selector's function was handed are dropped with the call.
Select(selector) ==
    /\ storeInstances' = select(storeInstances, selector).storeInstances
    /\ UNCHANGED <<ongoingAction, created, pending>>

StoreNext ==
    \/ \E store \in Stores, c \in StoreCalls : StoreCall(store, c)
    \/ \E store \in Stores, c \in ReadCalls : StoreRead(store, c)
    \/ \E store \in Stores : StoreLock(store)
    \/ \E store \in Stores : StoreUnlock(store)
    \/ \E store \in Stores, c \in StoreCalls : StoreMerge(store, c)
    \/ \E selector \in Selectors : Select(selector)

StoreSpec == StoreInit /\ [][StoreNext]_vars

\* ------------------------------------------------------------ properties
\* The started actions that have neither settled nor been canceled.
Unsettled == {id \in DOMAIN pending : ~pending[id].canceled}

\* The instance useStore(store) hands to a caller outside any action.
InstanceOf(store) == getOrCreateStoreInstance(storeInstances, store)[store]

\* The steps that hand a new Action object to run and leave no promise
\* behind are the synchronous runs (RunSync); the steps that take a promise
\* away are the settlements (Fulfil, Reject).
IsSyncRunStep == created' = created + 1 /\ DOMAIN pending' = DOMAIN pending

IsSettlementStep == DOMAIN pending' # DOMAIN pending /\ created' = created

\* The steps in which cancel finds an action to cancel.
IsCancelStep ==
    \E id \in DOMAIN pending :
        id \in DOMAIN pending' /\ ~pending[id].canceled /\ pending'[id].canceled

ActionRecord(state, name, error) ==
    [state |-> state, actionName |-> name, error |-> error]

\* C1 - At most one action is ongoing: while a started action has neither
\* settled nor been canceled, the marker is set (so that run is refused with
\* OngoingActionError), and no second such action exists.
C1_AtMostOneOngoing ==
    /\ Cardinality(Unsettled) <= 1
    /\ Unsettled # {} => hasOngoingAction(ongoingAction)

\* C2 - Read isolation: the writes the ongoing action's function makes, when
\* it is started and when its suspended body resumes, leave the records an
\* outside reader gets from the live collections as they were.
C2_ReadIsolation ==
    [][ ( \/ \E name \in ActionNames : \E calls \in BodyCalls(name) : RunAsync(name, calls)
          \/ \E store \in Stores, c \in WriteCalls : BodyCall(ongoingAction, store, c) )
        => \A s \in Stores : Live(storeInstances', s) = Live(storeInstances, s) ]_vars

\* C3 - Write exclusion: while an action is ongoing, every mutating call an
\* outside caller makes on a collection the action depends on fails with
\* StoreIsLockedError (and so leaves the records unchanged).
C3_WriteExclusion ==
    hasOngoingAction(ongoingAction) =>
        \A s \in ActionStores(pending[ongoingAction].name), c \in WriteCalls :
            /\ call(InstanceOf(s), c).error = "StoreIsLockedError"
            /\ call(InstanceOf(s), c).inst.collection = Live(storeInstances, s)

\* C4 - Rollback on failure: when the function of an action throws an error
\* after its writes, the live collections hold what they held before the
\* action started and the action state record is {ERROR, the action's name,
\* the thrown value}.
C4_RollbackOnFailure ==
    [][ \A name \in ActionNames : \A calls \in BodyCalls(name) : \A thrown \in ThrownValues :
          (IsSyncRunStep /\ isTruthy(thrown) /\ RunSync(name, calls, thrown)) =>
              /\ \A s \in Stores : Live(storeInstances', s) = Live(storeInstances, s)
              /\ ActionStateOf(storeInstances') = ActionRecord("ERROR", name, thrown) ]_vars

\* C5 - A canceled action never commits: the settlement of a canceled action
\* (its promise is fulfilled or rejected) changes neither the live
\* collections nor the action state record.
C5_CanceledNeverCommits ==
    [][ \A id \in DOMAIN pending :
          ( /\ pending[id].canceled
            /\ (Fulfil(id) \/ \E err \in ThrownValues : Reject(id, err)) )
          => storeInstances' = storeInstances ]_vars

C8_SettledUnblocksRun ==
    [][ (IsSyncRunStep \/ IsSettlementStep \/ IsCancelStep)
        => ~hasOngoingAction(ongoingAction') ]_vars

\* A second action was accepted after the first one failed: the first has
\* settled with ERROR or the second is the one in flight.
C8_Witness ==
    /\ created = 2
    /\ ongoingAction = 2
    /\ DOMAIN pending = {2}

\* C9 - Errors of an action's function are never dropped: the value the
\* function throws is the value run throws to its caller, and the value its
\* promise is rejected with is the value run's promise is rejected with; it
\* is also the error of the action state record.
C9_ErrorsResurface ==
    [][ /\ \A name \in ActionNames : \A calls \in BodyCalls(name) : \A thrown \in ThrownValues :
              (IsSyncRunStep /\ RunSync(name, calls, thrown)) =>
                  /\ runAction(storeInstances, created + 1, name, calls, thrown).throws = thrown
                  /\ ActionStateOf(storeInstances').error = thrown
        /\ \A id \in DOMAIN pending : \A err \in ThrownValues :
              (~pending[id].canceled /\ Reject(id, err)) =>
                  /\ andThen(storeInstances, ongoingAction, pending[id].name, err).throws = err
                  /\ ActionStateOf(storeInstances').error = err ]_vars

\* C10 - A run refused with OngoingActionError changes nothing: marker,
\* action state record, lock flags and records of every collection are after
\* the call what they were before it.
C10_RefusedRunChangesNothing ==
    [][ \A name \in ActionNames :
          RunRefused(name) =>
              /\ ongoingAction' = ongoingAction
              /\ ActionStateOf(storeInstances') = ActionStateOf(storeInstances)
              /\ storeInstances' = storeInstances
              /\ refuseAction(storeInstances, ongoingAction, created + 1).throws.error
                     = "OngoingActionError" ]_vars

\* A run is being refused: an action that wrote a record is ongoing.
C10_Witness ==
    /\ hasOngoingAction(ongoingAction)
    /\ ActionStateOf(storeInstances).state = "ONGOING"
    /\ Live(storeInstances, "todos") # <<>>

\* C11 - Cancellation races are resolved by identity: when the promise of a
\* canceled action settles while another action is the ongoing one, the
\* marker still references that other action, the record still shows it
\* ONGOING and no live collection changes.
C11_StaleSettlementIgnored ==
    [][ \A id \in DOMAIN pending :
          ( /\ IsSettlementStep
            /\ pending[id].canceled
            /\ hasOngoingAction(ongoingAction) /\ ongoingAction # id
            /\ (Fulfil(id) \/ \E err \in ThrownValues : Reject(id, err)) )
          => /\ ongoingAction' = ongoingAction
             /\ ActionStateOf(storeInstances') =
                    ActionRecord("ONGOING", pending[ongoingAction].name, "null")
             /\ \A s \in Stores : Live(storeInstances', s) = Live(storeInstances, s) ]_vars

\* C12 - Actions are totally ordered: while one action is the ongoing one, no
\* other action's writes reach a live collection, so no reader sees the
\* effects of two actions mixed.
C12_NoInterleavedWrites ==
    [][ \A id \in DOMAIN pending : \A store \in Stores : \A c \in WriteCalls :
          ( /\ hasOngoingAction(ongoingAction) /\ ongoingAction # id
            /\ BodyCall(id, store, c) )
          => \A s \in Stores : Live(storeInstances', s) = Live(storeInstances, s) ]_vars

\* C13 - Collections the ongoing action does not depend on are untouched by
\* it: they are not locked, no mutating call on them fails for being locked,
\* and an outside write that succeeds is in the live collection at once.
C13_UnaffectedStoresWritable ==
    /\ [](hasOngoingAction(ongoingAction) =>
            \A s \in Stores \ ActionStores(pending[ongoingAction].name) :
                /\ ~Locked(storeInstances, s)
                /\ \A c \in WriteCalls :
                      call(InstanceOf(s), c).error # "StoreIsLockedError")
    /\ [][ \A s \in Stores : \A c \in WriteCalls :
              ( /\ hasOngoingAction(ongoingAction)
                /\ s \notin ActionStores(pending[ongoingAction].name)
                /\ call(InstanceOf(s), c).error = "none"
                /\ OutsideCall(s, c) )
              => Live(storeInstances', s) = list(call(InstanceOf(s), c).inst) ]_vars

\* An action that depends on todos only is ongoing and bagels holds a record
\* written from outside.
C13_Witness ==
    /\ hasOngoingAction(ongoingAction)
    /\ pending[ongoingAction].name = "createTodo"
    /\ Live(storeInstances, "bagels") # <<>>

\* C14 - A failed action leaves nothing behind for the next one: running B
\* after A has failed (A's function wrote and then threw an error) gives the
\* live collections that running B alone gives.
C14_FailedActionLeavesNoTrace ==
    ~hasOngoingAction(ongoingAction) =>
        \A nameA \in ActionNames : \A callsA \in BodyCalls(nameA) :
        \A nameB \in ActionNames : \A callsB \in BodyCalls(nameB) :
            LET ranA == runAction(storeInstances, created + 1, nameA, callsA, "e1")
                ranB == runAction(ranA.storeInstances, created + 2, nameB, callsB, "return")
                onlyB == runAction(storeInstances, created + 1, nameB, callsB, "return")
            IN  (ranA.bodyError = "none" /\ ranB.bodyError = "none" /\ onlyB.bodyError = "none")
                => \A s \in Stores :
                      Live(ranB.storeInstances, s) = Live(onlyB.storeInstances, s)

TerminalStates == {"COMPLETED", "ERROR", "CANCELED"}

\* C16 - The action state record follows IDLE -> ONGOING -> terminal ->
\* ONGOING: a step either leaves the record alone, moves it to ONGOING from
\* a state other than ONGOING, or moves it from ONGOING to a terminal state;
\* a synchronous run, which passes through ONGOING within the call, ends in a
\* terminal state.  Writes by outside callers never change it.
C16_Lifecycle ==
    [][ LET before == ActionStateOf(storeInstances)
            after == ActionStateOf(storeInstances')
        IN  IF IsSyncRunStep
            THEN after.state \in TerminalStates
            ELSE \/ after = before
                 \/ after.state = "ONGOING" /\ before.state # "ONGOING"
                 \/ before.state = "ONGOING" /\ after.state \in TerminalStates ]_vars

\* The records of the action state collection.
ActionStateRecords == Live(storeInstances, actionStateStore)

C18_WatchedActionState ==
    \A watch \in WatchSets :
        LET current == IF ActionStateRecords = <<>>
                       THEN ActionRecord("IDLE", "", "null")
                       ELSE ActionStateRecords[1]
            seen == useActionState(storeInstances, watch)
        IN  /\ (~watch.given \/ current.actionName \in watch.names) => seen = current
            /\ (watch.given /\ current.actionName \notin watch.names)
                  => seen = ActionRecord("IDLE", "", "null")
            /\ created = 0 => seen = ActionRecord("IDLE", "", "null")
            /\ (watch.given /\ seen.state # "IDLE") => seen.actionName \in watch.names

\* The record shows syncAll ONGOING and a watcher of createTodo sees IDLE.
C18_Witness ==
    /\ ActionStateOf(storeInstances) = ActionRecord("ONGOING", "syncAll", "null")
    /\ useActionState(storeInstances, [given |-> TRUE, names |-> {"createTodo"}])
          = ActionRecord("IDLE", "", "null")
    /\ useActionState(storeInstances, [given |-> TRUE, names |-> {"syncAll"}]).state = "ONGOING"

\* C19: on a locked instance every mutating call (create, update,
\* updateAllWhere, replace, delete, deleteAllWhere, merge) fails with
\* StoreIsLockedError, whatever its arguments: also a call that fails with
\* ValidationError or ItemNotFoundInStoreError once the instance is unlocked.
\* The records are unchanged and no stateChanged event is emitted.
C19_LockedRefusesWrites ==
    \A store \in Stores :
        LET inst == storeInstances[store]
        IN  inst.locked =>
                /\ \A c \in StoreCalls :
                       LET r == call(inst, c)
                       IN  /\ r.error = "StoreIsLockedError"
                           /\ r.inst = inst
                           /\ ~r.emitted
                /\ \A from \in Stores :
                       LET r == merge(inst, storeInstances[from])
                       IN  /\ r.error = "StoreIsLockedError"
                           /\ r.inst = inst
                           /\ ~r.emitted

\* A locked instance holding a record on which, once unlocked, one call fails
\* validation, another misses its index, and a merge would change the records.
C19_Witness ==
    \E store \in Stores :
        LET inst == storeInstances[store]
        IN  /\ inst.locked
            /\ inst.collection # <<>>
            /\ \E c \in StoreCalls : call(unlock(inst), c).error = "ValidationError"
            /\ \E c \in StoreCalls : call(unlock(inst), c).error = "ItemNotFoundInStoreError"
            /\ \E from \in Stores :
                   merge(unlock(inst), storeInstances[from]).inst.collection # inst.collection

\* C20: on a read-only view each of create, update, updateAllWhere, replace,
\* delete and deleteAllWhere fails with StoreIsReadOnlyError for every
\* argument and leaves the records of the view unchanged.
C20_ReadOnlyRefusesWrites ==
    \A store \in Stores, c \in StoreCalls :
        LET view == clone(storeInstances[store])
            r == readOnlyCall(view, c)
        IN  /\ r.error = "StoreIsReadOnlyError"
            /\ r.inst = view

\* C21: a selector whose function attempts a write through its read-only
\* view makes select throw AttemptingToWriteFromSelectorError naming the
\* store and the method, whatever its fallback, and the live records are
\* unchanged.
C21_SelectorWriteFailsHard ==
    \A selector \in Selectors :
        (~selector.async /\ selector.writes # <<>>) =>
            LET r == select(storeInstances, selector)
            IN  /\ r.thrown = "AttemptingToWriteFromSelectorError"
                /\ r.storeName = selector.store
                /\ r.method = selector.writes[1].method
                /\ r.storeInstances = storeInstances

\* C22: a selector whose function returns a promise makes select throw
\* SelectorCantBeAsyncError, with or without a fallback, whatever the
\* function did before.
C22_AsyncSelectorFailsHard ==
    \A selector \in Selectors :
        selector.async =>
            select(storeInstances, selector).thrown = "SelectorCantBeAsyncError"

\* A selector with a fallback whose async function also writes and throws,
\* evaluated on a store that holds a record.
C22_Witness ==
    \E selector \in Selectors :
        /\ selector.async
        /\ selector.fallback # Undefined
        /\ selector.writes # <<>>
        /\ selector.ending.kind = "throw"
        /\ storeInstances[selector.store].collection # <<>>
        /\ select(storeInstances, selector).thrown = "SelectorCantBeAsyncError"

\* C23: select returns [returned value, null] when the function returns
\* normally, [null, thrown value] when it throws and no fallback is declared,
\* and [fallback, null] when it throws and a fallback is declared.
C23_SelectResult ==
    \A selector \in Selectors :
        (~selector.async /\ selector.writes = <<>>) =>
            LET r == select(storeInstances, selector)
            IN  /\ r.thrown = "none"
                /\ IF selector.ending.kind = "return"
                   THEN r.result = selector.ending.value /\ r.error = Null
                   ELSE IF selector.fallback = Undefined
                   THEN r.result = Null /\ r.error = selector.ending.value
                   ELSE r.result = selector.fallback /\ r.error = Null

\* The valid entities of a sequence, in order.
ValidOf(storeName, entities) ==
    LET valid == SelectSeq(entities, LAMBDA e : parseSchemaOk(storeName, e))
    IN  [k \in 1..Len(valid) |-> parseSchema(storeName, valid[k])]

\* The runs of create calls tried: every sequence of at most MaxStoreLen
\* inputs.
CreateRuns ==
    UNION {[1..n -> CreateInputs] : n \in 0..MaxStoreLen}

\* C24: after any sequence of create calls on an unlocked instance, list()
\* is the former list followed by the parsed valid entities in call order (so its
\* length grows by the number of successful creates); a create of an entity
\* that fails the schema throws ValidationError and adds nothing.
C24_CreateAppendsInOrder ==
    \A store \in Stores :
        LET inst == storeInstances[store]
        IN  ~inst.locked =>
                /\ \A entities \in CreateRuns :
                       list(createAll(inst, entities))
                           = list(inst) \o ValidOf(inst.storeName, entities)
                /\ \A e \in CreateInputs :
                       LET r == create(inst, e)
                       IN  IF parseSchemaOk(inst.storeName, e)
                           THEN r.error = "none" /\ r.emitted
                           ELSE r.error = "ValidationError" /\ r.inst = inst /\ ~r.emitted

\* An unlocked instance that holds two different records, the later created
\* one last.
C24_Witness ==
    \E store \in Stores :
        LET inst == storeInstances[store]
        IN  /\ ~inst.locked
            /\ Len(inst.collection) = 2
            /\ inst.collection[1] # inst.collection[2]
            /\ \E e \in CreateInputs :
                   inst = create([inst EXCEPT !.collection = SubSeq(@, 1, 1)], e).inst

\* C25: get(i) returns the item at index i when there is one, else the
\* fallback when one is given, else throws ItemNotFoundInStoreError;
\* getBy(matcher) returns the first matching item, else the fallback when one
\* is given, else throws ItemNotMatchedInStoreError.  Neither changes the
\* instance or emits stateChanged.
C25_GetAndGetBy ==
    \A store \in Stores, c \in ReadCalls :
        LET inst == storeInstances[store]
            r == read(inst, c)
            items == inst.collection
        IN  /\ r.inst = inst
            /\ ~r.emitted
            /\ IF c.method = "get"
               THEN IF c.i < Len(items)
                    THEN r.error = "none" /\ r.value = items[c.i + 1]
                    ELSE IF c.opts.hasFallback
                    THEN r.error = "none" /\ r.value = c.opts.fallback
                    ELSE r.error = "ItemNotFoundInStoreError"
               ELSE IF \E k \in 1..Len(items) : matches(c.matcher, items[k])
                    THEN /\ r.error = "none"
                         /\ \E k \in 1..Len(items) :
                                /\ r.value = items[k]
                                /\ matches(c.matcher, items[k])
                                /\ \A j \in 1..(k - 1) : ~matches(c.matcher, items[j])
                    ELSE IF c.opts.hasFallback
                    THEN r.error = "none" /\ r.value = c.opts.fallback
                    ELSE r.error = "ItemNotMatchedInStoreError"

\* An instance whose first item does not match a matcher that its second
\* item matches, and on which an index is missing.
C25_Witness ==
    \E store \in Stores :
        LET items == storeInstances[store].collection
        IN  /\ Len(items) = 2
            /\ ~matches("isChecked", items[1])
            /\ matches("isChecked", items[2])
            /\ getBy(storeInstances[store], "isChecked", CHOOSE o \in GetOpts : ~o.hasFallback).value = items[2]
            /\ get(storeInstances[store], 2, CHOOSE o \in GetOpts : ~o.hasFallback).error = "ItemNotFoundInStoreError"

\* The partial updates and the indices tried by the formulas on update,
\* updateAllWhere and replace.
UpdateInputs ==
    {[checked |-> TRUE], [title |-> NotAString], [title |-> EmptyTitle]}

Indices == 0..MaxStoreLen

Matchers == {"any", "isChecked"}

\* The item with the fields of updates laid over it.
Merged(item, updates) ==
    [title |-> IF "title" \in DOMAIN updates THEN updates.title ELSE item.title,
     checked |-> IF "checked" \in DOMAIN updates THEN updates.checked ELSE item.checked]

\* Only position k of the collection differs, and holds item.
OnlyChangedAt(before, after, k, item) ==
    /\ Len(after) = Len(before)
    /\ after[k] = item
    /\ \A j \in 1..Len(before) : j # k => after[j] = before[j]

C27_UpdateAllWhereAllOrNothing ==
    \A store \in Stores, matcher \in Matchers, updates \in UpdateInputs :
        LET inst == storeInstances[store]
            r == updateAllWhere(inst, matcher, updates)
        IN  (~inst.locked /\ r.error = "ValidationError") => r.inst = inst

\* The k-th (from 1) least element of a set of numbers.
Nth(S, k) == CHOOSE x \in S : Cardinality({y \in S : y < x}) = k - 1

C29_CloneThenMergeBack ==
    \A store \in Stores :
        LET inst == storeInstances[store]
            r == merge(inst, clone(inst))
        IN  ~inst.locked =>
                /\ r.error = "none"
                /\ list(r.inst) = list(inst)

\* An unlocked instance with two different items, which its clone holds too.
C29_Witness ==
    \E store \in Stores :
        LET inst == storeInstances[store]
        IN  /\ ~inst.locked
            /\ Len(list(inst)) = 2
            /\ list(inst)[1] # list(inst)[2]
            /\ list(clone(inst)) = list(inst)
            /\ merge(inst, clone(inst)).emitted

\* C30: the instance clone() returns holds the items of the original at the
\* time of the call, is unlocked even when the original is locked and has no
\* listeners; cloning notifies nobody, a write to the clone neither changes
\* the items of the original nor notifies its listeners, and a write to the
\* original does not change the items of the clone.
C30_CloneIsIndependent ==
    \A store \in Stores :
        LET inst == storeInstances[store]
            cloned == cloneIn(world(inst), "original", "clone")
        IN  /\ valueOf(cloned, "clone").collection = inst.collection
            /\ ~cloned.insts["clone"].locked
            /\ cloned.insts["clone"].listeners = {}
            /\ cloned.notified = {}
            /\ valueOf(cloned, "original") = inst
            /\ \A c \in StoreCalls :
                   LET written == callIn(cloned, "clone", c)
                   IN  /\ valueOf(written, "original") = inst
                       /\ written.notified = {}
            /\ \A c \in StoreCalls :
                   LET written == callIn(cloned, "original", c)
                   IN  valueOf(written, "clone").collection = inst.collection

\* A locked instance with an item and listeners whose clone accepts a write
\* that changes the clone, and an unlocked one whose own write changes it.
C30_Witness ==
    /\ \E store \in Stores, c \in StoreCalls :
        LET inst == storeInstances[store]
            cloned == cloneIn(world(inst), "original", "clone")
        IN  /\ inst.locked
            /\ inst.collection # <<>>
            /\ valueOf(callIn(cloned, "clone", c), "clone").collection # inst.collection
    /\ \E store \in Stores, c \in StoreCalls :
        LET inst == storeInstances[store]
            cloned == cloneIn(world(inst), "original", "clone")
        IN  /\ ~inst.locked
            /\ inst.collection # <<>>
            /\ valueOf(callIn(cloned, "original", c), "original").collection # inst.collection
            /\ callIn(cloned, "original", c).notified = Listeners

\* Every store definition of the session.
AllStores == Stores \cup {actionStateStore}

\* C31: getOrCreateStoreInstance(store) is idempotent: a second call returns
\* the instance of the first one and creates nothing, an instance that exists
\* is returned with its records and lock flag as they are, no other instance
\* of the registry is touched, and different stores get different instances.
C31_GetOrCreateIdempotent ==
    \A store \in AllStores :
        LET once == getOrCreateStoreInstance(storeInstances, store)
            twice == getOrCreateStoreInstance(once, store)
        IN  /\ DOMAIN once = DOMAIN storeInstances \cup {store}
            /\ twice = once
            /\ \A s \in DOMAIN storeInstances : once[s] = storeInstances[s]
            /\ store \notin DOMAIN storeInstances => once[store] = NewStoreInstance(store)
            /\ \A other \in AllStores \ {store} :
                   /\ getOrCreateStoreInstance(once, other)[other].storeName
                          # once[store].storeName
                   /\ getOrCreateStoreInstance(once, other)[store] = once[store]

\* A registry that holds an instance with a record and lacks another store's.
C31_Witness ==
    /\ \E s \in Stores :
           /\ s \in DOMAIN storeInstances
           /\ storeInstances[s].collection # <<>>
           /\ getOrCreateStoreInstance(storeInstances, s) = storeInstances
    /\ \E t \in Stores :
           /\ t \notin DOMAIN storeInstances
           /\ getOrCreateStoreInstance(storeInstances, t)[t] = NewStoreInstance(t)

\* The objects a caller may hand to create or replace.
SchemaInputs ==
    [title : Titles \cup {EmptyTitle, NotAString, Null}, checked : BOOLEAN]

\* The record is what the store's schema parser returned for some object.
hasPassedValidation(storeName, record) ==
    \E obj \in SchemaInputs :
        /\ parseSchemaOk(storeName, obj)
        /\ parseSchema(storeName, obj) = record

allHavePassedValidation(inst) ==
    \A k \in 1..Len(inst.collection) :
        hasPassedValidation(inst.storeName, inst.collection[k])

\* C32: every record of every instance has passed its store's schema
\* validation: the live instances, their clones, the read-only views and the
\* copies merged back, after any call on them, failing calls included.
C32_ValidityInvariant ==
    \A store \in Stores :
        LET inst == storeInstances[store]
        IN  /\ allHavePassedValidation(inst)
            /\ allHavePassedValidation(clone(inst))
            /\ \A c \in StoreCalls :
                   /\ allHavePassedValidation(call(inst, c).inst)
                   /\ allHavePassedValidation(call(clone(inst), c).inst)
                   /\ allHavePassedValidation(readOnlyCall(clone(inst), c).inst)
                   /\ allHavePassedValidation(merge(inst, call(clone(inst), c).inst).inst)

\* An instance holding a record the parser transformed, on which an update
\* has changed one record and a call with an invalid object fails.
C32_Witness ==
    \E store \in Stores :
        LET inst == storeInstances[store]
        IN  /\ Len(inst.collection) = 2
            /\ inst.collection[1].checked
            /\ inst.collection[2].title = Null
            /\ \E c \in StoreCalls : call(inst, c).error = "ValidationError"

\* A valid create, the outside write tried on a collection.
OutsideWrite == [method |-> "create", entity |-> [title |-> "a", checked |-> FALSE]]

C35_SuccessorKeepsExclusion ==
    [][ \A id \in DOMAIN pending :
          ( /\ IsSettlementStep
            /\ id \notin DOMAIN pending'
            /\ pending[id].canceled
            /\ hasOngoingAction(ongoingAction) /\ ongoingAction # id )
          => \A s \in ActionStores(pending[ongoingAction].name) :
                 call(getOrCreateStoreInstance(storeInstances', s)[s],
                      OutsideWrite).error = "StoreIsLockedError" ]_vars

\* C36: the action state record and the marker agree: the record is ONGOING
\* exactly when the marker is set, and then it names the action the marker
\* references and its error is null.
C36_RecordAgreesWithMarker ==
    /\ (ActionStateOf(storeInstances).state = "ONGOING") <=> hasOngoingAction(ongoingAction)
    /\ hasOngoingAction(ongoingAction) =>
           ActionStateOf(storeInstances) =
               ActionRecord("ONGOING", pending[ongoingAction].name, "null")

\* A second action is ongoing while the first one, canceled, is still pending.
C36_Witness ==
    /\ hasOngoingAction(ongoingAction)
    /\ \E id \in DOMAIN pending : id # ongoingAction /\ pending[id].canceled
    /\ ActionStateOf(storeInstances).state = "ONGOING"

C38_OneTerminalTransition ==
    [][ /\ IsSyncRunStep =>
              /\ ActionStateOf(storeInstances').state \in TerminalStates
              /\ ActionStateOf(storeInstances').actionName \in ActionNames
        /\ \A id \in DOMAIN pending :
              (IsSettlementStep /\ id \notin DOMAIN pending') =>
                  IF pending[id].canceled
                  THEN /\ ActionStateOf(storeInstances') = ActionStateOf(storeInstances)
                       /\ ongoingAction' = ongoingAction
                  ELSE /\ ActionStateOf(storeInstances').state \in TerminalStates
                       /\ ActionStateOf(storeInstances').actionName = pending[id].name ]_vars

\* C39: progress: when the body of every started action eventually settles,
\* an ONGOING record is eventually followed by a terminal one, a set marker
\* is eventually cleared (so that run is accepted again) and a locked
\* collection is eventually unlocked.
C39_Progress ==
    /\ (ActionStateOf(storeInstances).state = "ONGOING")
           ~> (ActionStateOf(storeInstances).state \in TerminalStates)
    /\ hasOngoingAction(ongoingAction) ~> ~hasOngoingAction(ongoingAction)
    /\ \A s \in Stores : Locked(storeInstances, s) ~> ~Locked(storeInstances, s)

\* Every action the bound allows has been started and has settled: the
\* marker is clear and the record is terminal.
C39_Witness ==
    /\ created = MaxActions
    /\ DOMAIN pending = {}
    /\ ~hasOngoingAction(ongoingAction)
    /\ ActionStateOf(storeInstances).state \in TerminalStates

====
